---- MODULE Spec2Model ----
(***************************************************************************)
(* cd_ripper: the track matcher and the album pipeline of                  *)
(* cd_ripper/__init__.py and the multi-disc sequencer of cd_ripper/raw.py. *)
(*                                                                         *)
(* Strings are sequences of one-character strings, so that substring      *)
(* tests, slices, stems and suffixes are computed the way Python and       *)
(* pathlib compute them.  A directory is the set of the names of its       *)
(* entries.                                                                *)
(***************************************************************************)
EXTENDS Integers, Sequences, FiniteSets, TLC

VARIABLES
    \* ---- match_titles_to_files
    title_list,      \* argument: ordered titles
    directory,       \* entries of the directory argument (the album directory)
    music_files,     \* local: candidates not yet claimed
    mapping,         \* local: pairs recorded so far (last title first)
    i,               \* local: index of the loop over title_list[::-1]
    mpc,             \* position: "idle", "call", "loop", "returned", "raised"
    result,          \* returned mapping, <<>> before the return
    merr,            \* exception raised by the matcher, NoError if none
    \* ---- populate_album_metadata
    ppc,             \* position of the pipeline
    album_exists,    \* album_directory.is_dir()
    config_json,     \* argument, then the resolved configuration file
    output_directory,\* argument: None, "out" (a directory) or "gone" (not one)
    out_files,       \* entries of the output directory
    json_content,    \* what json.load yields for each configuration file
    album_metadata,  \* loaded configuration
    kwargs,          \* keywords passed to add_metadata
    files,           \* entries of the snapshot not yet visited by the loop
    wav_file,        \* file wav_to_mp3 is asking the overwrite question for
    tag_track_num,   \* track_num of step (4)
    calls,           \* history: external invocations, in order
    at_call,         \* history: the config argument and the directory at the call
    perr,            \* exception that ended the pipeline, NoError if none
    \* ---- rip_album_from_cd, one run per value of mock_run
    spc,             \* position of the sequencer
    folder_exists,   \* folder.is_dir()
    cd_count,        \* argument
    n,               \* loop variable: disc index
    temp_dir,        \* entries of the temporary directory, per run
    raw_dir,         \* entries of folder/raw, per run
    track_num,       \* running offset, per run
    moves,           \* per run, per disc: the (source, destination) pairs
    events,          \* history: prompts, rips and relocations, in order
    serr             \* exception that ended the sequencer, NoError if none

matchVars == <<title_list, directory, music_files, mapping, i, mpc, result, merr>>
pipeVars == <<ppc, album_exists, config_json, output_directory, out_files,
              json_content, album_metadata, kwargs, files, wav_file,
              tag_track_num, calls, at_call, perr>>
seqVars == <<spc, folder_exists, cd_count, n, temp_dir, raw_dir, track_num,
             moves, events, serr>>
vars == <<matchVars, pipeVars, seqVars>>

None == "None"

\* no path: the value of a path variable that holds None
NoPath == <<>>

(***************************************************************************)
(* Bounds of the model.                                                    *)
(***************************************************************************)
MaxTitles == 2
MaxFiles == 2
MaxDiscs == 9
MaxRip == 2

(***************************************************************************)
(* Strings.                                                                *)
(***************************************************************************)
Digits == <<"0", "1", "2", "3", "4", "5", "6", "7", "8", "9">>

DigitChar(d) == Digits[d + 1]

DigitVal(c) == CHOOSE d \in 0..9 : Digits[d + 1] = c

\* str(k) for k >= 0
RECURSIVE Str(_)
Str(k) == IF k < 10 THEN <<DigitChar(k)>>
          ELSE Str(k \div 10) \o <<DigitChar(k % 10)>>

\* int(s) for a string of decimal digits
RECURSIVE Int_(_)
Int_(s) == IF Len(s) = 0 THEN 0
           ELSE 10 * Int_(SubSeq(s, 1, Len(s) - 1)) + DigitVal(s[Len(s)])

\* s[a:b] of Python (0-based, end exclusive, clipped to the string)
Slice(s, a, b) ==
    LET hi == IF b < Len(s) THEN b ELSE Len(s)
    IN  IF a >= hi THEN <<>> ELSE SubSeq(s, a + 1, hi)

\* sub in s
Contains(sub, s) ==
    \E k \in 0..(Len(s) - Len(sub)) : SubSeq(s, k + 1, k + Len(sub)) = sub

RECURSIVE Reverse(_)
Reverse(s) == IF s = <<>> THEN <<>>
              ELSE Reverse(Tail(s)) \o <<Head(s)>>

\* position of the last "." that starts a suffix, 0 if the name has none
LastDot(name) ==
    LET dots == {k \in 2..(Len(name) - 1) : name[k] = "."}
    IN  IF dots = {} THEN 0 ELSE CHOOSE k \in dots : \A j \in dots : j <= k

\* pathlib's PurePath.suffix and PurePath.stem
Suffix(name) == IF LastDot(name) = 0 THEN <<>>
                ELSE SubSeq(name, LastDot(name), Len(name))

Stem(name) == IF LastDot(name) = 0 THEN name
              ELSE SubSeq(name, 1, LastDot(name) - 1)

\* s.split(".")[0]
BeforeFirstDot(s) ==
    LET dots == {k \in 1..Len(s) : s[k] = "."}
    IN  IF dots = {} THEN s
        ELSE SubSeq(s, 1, (CHOOSE k \in dots : \A j \in dots : k <= j) - 1)

WAV == <<".", "w", "a", "v">>
MP3 == <<".", "m", "p", "3">>
JSON == <<".", "j", "s", "o", "n">>
TXT == <<".", "t", "x", "t">>

SeqsUpTo(S, len) == UNION {[1..k -> S] : k \in 0..len}

\* the subsets of S with at most k elements
RECURSIVE SubsetsUpTo(_, _)
SubsetsUpTo(S, k) ==
    IF k = 0 THEN {{}}
    ELSE LET P == SubsetsUpTo(S, k - 1)
         IN  P \cup {p \cup {x} : p \in P, x \in S}

(***************************************************************************)
(* Exceptions.  An exception is a record: its kind, and what its message   *)
(* names (a track number, a title, file names, the two counts).            *)
(***************************************************************************)
Exc(kind, track, title, names, found, given) ==
    [kind |-> kind, track |-> track, title |-> title, names |-> names,
     found |-> found, given |-> given]

NoError == Exc(None, 0, <<>>, {}, 0, 0)

Simple(kind, names) == Exc(kind, 0, <<>>, names, 0, 0)

(***************************************************************************)
(* match_titles_to_files(title_list, directory)                            *)
(***************************************************************************)
\* [f for f in directory.iterdir() if f.suffix in ['.wav', '.mp3']]
MusicFilesOf(dir) == {f \in dir : Suffix(f) \in {WAV, MP3}}

\* a count check that only notices missing files
CountMismatch_TooFewOnly(titles, found) == Len(titles) > Cardinality(found)

\* len(title_list) != len(music_files)
CountMismatch(titles, found) == Len(titles) # Cardinality(found)

\* the title of iteration idx of enumerate(title_list[::-1])
TitleAt(titles, idx) == Reverse(titles)[idx + 1]

\* a track number that counts up with the loop although the titles run
\* from the last to the first
TrackNumber_Forward(titles, idx) == idx + 1

\* track_number = len(title_list) - i
TrackNumber(titles, idx) == Len(titles) - idx

\* [f for f in music_files if (str(track_number) in f.stem or title in f.stem)]
PossibleTracks(cands, track_number, title) ==
    {f \in cands : \/ Contains(Str(track_number), Stem(f))
                   \/ Contains(title, Stem(f))}

\* ','.join(possible_tracks): the items are Path objects, not str, so the
\* join raises TypeError while the RuntimeError message is being formatted
AmbiguousError(track_number, title, possible) ==
    Exc("TypeError", 0, <<>>, {}, 0, 0)

NoMatchError(track_number, title) ==
    Exc("RuntimeError", track_number, title, {}, 0, 0)

\* an exception leaves match_titles_to_files; inside the pipeline it leaves
\* populate_album_metadata as well
MatchRaise(e) ==
    /\ mpc' = "raised"
    /\ merr' = e
    /\ result' = result
    /\ IF ppc = "match"
       THEN ppc' = "failed" /\ perr' = e
       ELSE UNCHANGED <<ppc, perr>>

MatchFrame ==
    UNCHANGED <<title_list, directory, album_exists, config_json,
                output_directory, out_files, json_content, album_metadata,
                kwargs, files, wav_file, tag_track_num, calls, at_call,
                seqVars>>

\* lines 79-85: collect the music files, compare the counts
MatchEntry ==
    /\ mpc = "call"
    /\ music_files' = MusicFilesOf(directory)
    /\ mapping' = <<>>
    /\ i' = 0
    /\ IF CountMismatch(title_list, music_files')
       THEN MatchRaise(Exc("ValueError", 0, <<>>, {},
                           Cardinality(music_files'), Len(title_list)))
       ELSE /\ mpc' = "loop"
            /\ UNCHANGED <<result, merr, ppc, perr>>
    /\ MatchFrame

\* lines 87-103: one iteration of the loop over title_list[::-1]
MatchIter ==
    /\ mpc = "loop"
    /\ i < Len(title_list)
    /\ LET title == TitleAt(title_list, i)
           track_number == TrackNumber(title_list, i)
           possible_tracks == PossibleTracks(music_files, track_number, title)
       IN  IF Cardinality(possible_tracks) > 1
           THEN /\ MatchRaise(AmbiguousError(track_number, title, possible_tracks))
                /\ UNCHANGED <<music_files, mapping, i>>
           ELSE IF Cardinality(possible_tracks) = 0
           THEN /\ MatchRaise(NoMatchError(track_number, title))
                /\ UNCHANGED <<music_files, mapping, i>>
           ELSE LET f == CHOOSE x \in possible_tracks : TRUE
                IN  /\ music_files' = {m \in music_files : m # f}
                    /\ mapping' = Append(mapping, <<title, f>>)
                    /\ i' = i + 1
                    /\ UNCHANGED <<mpc, result, merr, ppc, perr>>
    /\ MatchFrame

\* line 105: return mapping[::-1]
MatchReturn ==
    /\ mpc = "loop"
    /\ i = Len(title_list)
    /\ result' = Reverse(mapping)
    /\ mpc' = "returned"
    /\ UNCHANGED <<music_files, mapping, i, merr, ppc, perr>>
    /\ MatchFrame

(***************************************************************************)
(* The matcher alone: every title list and directory within the bounds.    *)
(***************************************************************************)
MatchChars == {"1", "2", "a"}

Titles == {<<"a">>, <<"b">>}

\* stems of one or two characters
MatchStems ==
    {<<c>> : c \in MatchChars} \cup {<<c, d>> : c \in MatchChars, d \in MatchChars}

MatchNames == {stem \o suffix : stem \in MatchStems, suffix \in {WAV, MP3, TXT}}

PipeIdle ==
    /\ ppc = "idle"
    /\ album_exists = TRUE
    /\ config_json = NoPath
    /\ output_directory = None
    /\ out_files = {}
    /\ json_content = <<>>
    /\ album_metadata = <<>>
    /\ kwargs = <<>>
    /\ files = {}
    /\ wav_file = NoPath
    /\ tag_track_num = 0
    /\ calls = <<>>
    /\ at_call = <<>>
    /\ perr = NoError

SeqIdle ==
    /\ spc = "idle"
    /\ folder_exists = TRUE
    /\ cd_count = 0
    /\ n = 0
    /\ temp_dir = <<>>
    /\ raw_dir = <<>>
    /\ track_num = <<>>
    /\ moves = <<>>
    /\ events = <<>>
    /\ serr = NoError

MatchIdle ==
    /\ title_list = <<>>
    /\ music_files = {}
    /\ mapping = <<>>
    /\ i = 0
    /\ mpc = "idle"
    /\ result = <<>>
    /\ merr = NoError

InitMatch ==
    /\ title_list \in SeqsUpTo(Titles, MaxTitles)
    /\ directory \in SubsetsUpTo(MatchNames, MaxFiles)
    /\ music_files = {}
    /\ mapping = <<>>
    /\ i = 0
    /\ mpc = "call"
    /\ result = <<>>
    /\ merr = NoError
    /\ PipeIdle
    /\ SeqIdle

NextMatch == MatchEntry \/ MatchIter \/ MatchReturn

SpecMatch == InitMatch /\ [][NextMatch]_vars

(***************************************************************************)
(* rip_album_from_cd(folder, cd_count, mock_run) of raw.py.                *)
(*                                                                         *)
(* Two executions are carried side by side, one with mock_run = FALSE and  *)
(* one with mock_run = TRUE; both get the same answers from the operator   *)
(* and the same output from the ripper.  temp_dir, raw_dir, track_num and  *)
(* moves are indexed by the value of mock_run.                             *)
(***************************************************************************)
TRACK == <<"t", "r", "a", "c", "k">>

\* cdparanoia -B writes one file per track, track01.cdda.wav, track02...
RipName(j) ==
    TRACK \o (IF j < 10 THEN <<"0">> ELSE <<>>) \o Str(j)
          \o <<".", "c", "d", "d", "a">> \o WAV

\* name = _file.stem.split(".")[0]; int(name[5:7])
TrackIndex(file) == Int_(Slice(BeforeFirstDot(Stem(file)), 5, 7))

\* f"{prefix}{'0' if number < 10 else ''}{number}.wav"
TargetName(prefix, number) ==
    prefix \o (IF number < 10 THEN <<"0">> ELSE <<>>) \o Str(number) \o WAV

\* prefix = f"cd0{n}track" if n < 9 else f"cd{n}track"
Prefix(disc) ==
    IF disc < 9 THEN <<"c", "d", "0">> \o Str(disc) \o TRACK
    ELSE <<"c", "d">> \o Str(disc) \o TRACK

\* the (source, destination) pairs of one call of move_wav_files_to_album;
\* sources are entries of the temporary directory, destinations of folder/raw
MovePairs(wav, initial_index, prefix) ==
    {[src |-> f, dst |-> TargetName(prefix, TrackIndex(f) + initial_index)] :
        f \in wav}

\* the temporary directory after the loop: shutil.move empties it, a mock
\* run only logs
WavAfter(wav, mock_run) == IF mock_run THEN wav ELSE {}

\* return len(list(wav.iterdir())), evaluated after the loop
MovedCount(wav, mock_run) == Cardinality(WavAfter(wav, mock_run))

Event(op, disc, ok) == [op |-> op, disc |-> disc, ok |-> ok]

\* lines 86-94: mkdir folder/raw, create the temporary directory, enter the loop
SeqSetup ==
    /\ spc = "start"
    /\ IF ~folder_exists
       THEN /\ spc' = "failed"
            /\ serr' = Simple("FileNotFoundError", {})
            /\ UNCHANGED n
       ELSE /\ serr' = serr
            /\ IF cd_count >= 1
               THEN n' = 1 /\ spc' = "awaiting"
               ELSE n' = n /\ spc' = "done"
    /\ UNCHANGED <<folder_exists, cd_count, temp_dir, raw_dir, track_num,
                   moves, events, matchVars, pipeVars>>

\* line 95: input(f"Load CD {n}, then press <Enter>:") returns
SeqConfirm ==
    /\ spc = "awaiting"
    /\ events' = Append(events, Event("prompt", n, TRUE))
    /\ spc' = "ripping"
    /\ UNCHANGED <<folder_exists, cd_count, n, temp_dir, raw_dir, track_num,
                   moves, serr, matchVars, pipeVars>>

\* a sequencer that asks for the same disc again when the ripper fails
RipFails_Retry ==
    /\ spc' = "awaiting"
    /\ serr' = serr
    /\ events' = Append(events, Event("rip", n, FALSE))
    /\ temp_dir' = temp_dir

\* subprocess.run(..., check=True) raises: the exception leaves
\* rip_album_from_cd, and the temporary directory is removed
RipFails ==
    /\ spc' = "failed"
    /\ serr' = Simple("CalledProcessError", {})
    /\ events' = Append(events, Event("rip", n, FALSE))
    /\ temp_dir' = [m \in BOOLEAN |-> {}]

\* lines 98, 16-29: rip_cd_to_folder(temp_dir)
SeqRip ==
    /\ spc = "ripping"
    /\ \/ RipFails
       \/ \E k \in 1..MaxRip :
             /\ temp_dir' = [m \in BOOLEAN |->
                                temp_dir[m] \cup {RipName(j) : j \in 1..k}]
             /\ events' = Append(events, Event("rip", n, TRUE))
             /\ spc' = "relocating"
             /\ serr' = serr
    /\ UNCHANGED <<folder_exists, cd_count, n, raw_dir, track_num, moves,
                   matchVars, pipeVars>>

\* lines 100-102, 62-73: move_wav_files_to_album, then the next disc
SeqRelocate ==
    /\ spc = "relocating"
    /\ moves' = [m \in BOOLEAN |->
                    Append(moves[m], MovePairs(temp_dir[m], track_num[m], Prefix(n)))]
    /\ raw_dir' = [m \in BOOLEAN |->
                      IF m THEN raw_dir[m]
                      ELSE raw_dir[m] \cup
                           {p.dst : p \in MovePairs(temp_dir[m], track_num[m], Prefix(n))}]
    /\ track_num' = [m \in BOOLEAN |->
                        track_num[m] + MovedCount(temp_dir[m], m)]
    /\ events' = Append(events, Event("relocate", n, TRUE))
    /\ IF n < cd_count
       THEN /\ n' = n + 1
            /\ spc' = "awaiting"
            /\ temp_dir' = [m \in BOOLEAN |-> WavAfter(temp_dir[m], m)]
       ELSE /\ n' = n
            /\ spc' = "done"
            /\ temp_dir' = [m \in BOOLEAN |-> {}]
    /\ UNCHANGED <<folder_exists, cd_count, serr, matchVars, pipeVars>>

InitSeq ==
    /\ spc = "start"
    /\ folder_exists \in BOOLEAN
    /\ cd_count \in 0..MaxDiscs
    /\ n = 0
    /\ temp_dir = [m \in BOOLEAN |-> {}]
    /\ raw_dir = [m \in BOOLEAN |-> {}]
    /\ track_num = [m \in BOOLEAN |-> 0]
    /\ moves = [m \in BOOLEAN |-> <<>>]
    /\ events = <<>>
    /\ serr = NoError
    /\ MatchIdle
    /\ directory = {}
    /\ PipeIdle

NextSeq == SeqSetup \/ SeqConfirm \/ SeqRip \/ SeqRelocate

SpecSeq == InitSeq /\ [][NextSeq]_vars

(***************************************************************************)
(* populate_album_metadata(album_directory, config_json, output_directory) *)
(***************************************************************************)
TagKeys == {"artist", "album", "genre", "date"}

Call(tool, file, ok, title, track, tags) ==
    [tool |-> tool, file |-> file, ok |-> ok, title |-> title,
     track |-> track, tags |-> tags]

NoTags == [key \in TagKeys |-> None]

\* what json.load yields: unparsable text, or an object with or without songs
Config(parsable, has_songs, songs, tags) ==
    [parsable |-> parsable, has_songs |-> has_songs, songs |-> songs,
     tags |-> tags]

NoConfig == Config(FALSE, FALSE, <<>>, <<>>)

ContentOf(file) ==
    IF file \in DOMAIN json_content THEN json_content[file] ELSE NoConfig

\* a resolution that takes any entry of the directory for the configuration
ConfigCandidates_AnyFile(dir) == dir

\* [f for f in album_directory.iterdir() if f.suffix == '.json']
ConfigCandidates(dir) == {f \in dir : Suffix(f) = JSON}

\* kwargs[key] = album_metadata[key] if key in album_metadata else None
KwargsOf(metadata) ==
    [key \in TagKeys |->
        IF key \in DOMAIN metadata.tags THEN metadata.tags[key] ELSE None]

\* keep_wav=True at the call of wav_to_mp3
KeepWav == TRUE

\* entries of the directory wav_to_mp3 writes to
TargetFiles == IF output_directory = None THEN directory ELSE out_files

\* mp3_file = output_dir / (wav_file.stem + ".mp3")
Mp3Of(wav) == Stem(wav) \o MP3

PipeRaise(e) ==
    /\ ppc' = "failed"
    /\ perr' = e

\* lines 174-186: check the arguments, resolve the configuration file
PipeCheckArgs ==
    /\ ppc = "start"
    /\ IF ~album_exists
       THEN PipeRaise(Simple("FileNotFoundError", {})) /\ UNCHANGED config_json
       ELSE IF config_json = NoPath
       THEN IF ConfigCandidates(directory) = {}
            THEN PipeRaise(Simple("FileNotFoundError", {}))
                 /\ UNCHANGED config_json
            ELSE \* [0] of a list in directory order, which is arbitrary
                 /\ config_json' \in ConfigCandidates(directory)
                 /\ ppc' = "load"
                 /\ perr' = perr
       ELSE IF config_json \notin directory
       THEN PipeRaise(Simple("FileNotFoundError", {config_json}))
            /\ UNCHANGED config_json
       ELSE /\ ppc' = "load"
            /\ UNCHANGED <<config_json, perr>>
    /\ UNCHANGED <<album_exists, output_directory, out_files, json_content,
                   album_metadata, kwargs, files, wav_file, tag_track_num,
                   calls, at_call, matchVars, seqVars>>

\* lines 188-195: load the configuration, build kwargs, list the directory
PipeLoad ==
    /\ ppc = "load"
    /\ calls' = Append(calls, Call("json.load", config_json,
                                   ContentOf(config_json).parsable,
                                   <<>>, 0, NoTags))
    /\ IF ~ContentOf(config_json).parsable
       THEN /\ PipeRaise(Simple("JSONDecodeError", {config_json}))
            /\ UNCHANGED <<album_metadata, kwargs, files>>
       ELSE /\ album_metadata' = ContentOf(config_json)
            /\ kwargs' = KwargsOf(album_metadata')
            /\ files' = directory
            /\ ppc' = "transcode"
            /\ perr' = perr
    /\ UNCHANGED <<album_exists, config_json, output_directory, out_files,
                   json_content, wav_file, tag_track_num, at_call, matchVars,
                   seqVars>>

\* lines 66-72: run ffmpeg on wav; a non-zero exit raises
RunFfmpeg(wav) ==
    \E ok \in BOOLEAN :
        /\ calls' = Append(calls, Call("ffmpeg", wav, ok, <<>>, 0, NoTags))
        /\ wav_file' = NoPath
        /\ IF ok
           THEN /\ ppc' = "transcode"
                /\ perr' = perr
                /\ IF output_directory = None
                   THEN /\ directory' = (directory \cup {Mp3Of(wav)})
                                          \ (IF KeepWav THEN {} ELSE {wav})
                        /\ out_files' = out_files
                   ELSE /\ out_files' = out_files \cup {Mp3Of(wav)}
                        /\ directory' = directory
                                          \ (IF KeepWav THEN {} ELSE {wav})
           ELSE /\ PipeRaise(Simple("CalledProcessError", {wav}))
                /\ UNCHANGED <<directory, out_files>>

PipeFrame ==
    UNCHANGED <<album_exists, config_json, output_directory, json_content,
                album_metadata, kwargs, tag_track_num, at_call, seqVars>>

\* lines 196-198, 45-68: the loop reaches the next .wav file of the listing
PipeTranscode ==
    /\ ppc = "transcode"
    /\ \E f \in files :
          /\ Suffix(f) = WAV
          /\ files' = files \ {f}
          /\ IF output_directory = "gone"
             THEN /\ PipeRaise(Simple("FileNotFoundError", {}))
                  /\ UNCHANGED <<directory, out_files, wav_file, calls>>
             ELSE IF Mp3Of(f) \in TargetFiles
             THEN /\ ppc' = "prompt"
                  /\ wav_file' = f
                  /\ UNCHANGED <<directory, out_files, calls, perr>>
             ELSE RunFfmpeg(f)
    /\ UNCHANGED <<title_list, music_files, mapping, i, mpc, result, merr>>
    /\ PipeFrame

\* lines 57-64: the answer to "exists. Overwrite? [y/N]"
PipePrompt ==
    /\ ppc = "prompt"
    /\ \E ans \in {"y", "N", "other"} :
          IF ans = "y"
          THEN RunFfmpeg(wav_file)
          ELSE IF ans = "N"
          THEN /\ ppc' = "transcode"
               /\ wav_file' = NoPath
               /\ UNCHANGED <<directory, out_files, calls, perr>>
          ELSE UNCHANGED <<ppc, wav_file, directory, out_files, calls, perr>>
    /\ UNCHANGED <<files, title_list, music_files, mapping, i, mpc, result, merr>>
    /\ PipeFrame

\* lines 200-201: call match_titles_to_files(album_metadata['songs'], album_directory)
PipeMatch ==
    /\ ppc = "transcode"
    /\ \A f \in files : Suffix(f) # WAV
    /\ IF ~album_metadata.has_songs
       THEN /\ PipeRaise(Simple("KeyError", {}))
            /\ UNCHANGED <<title_list, mpc>>
       ELSE /\ title_list' = album_metadata.songs
            /\ mpc' = "call"
            /\ ppc' = "match"
            /\ perr' = perr
    /\ UNCHANGED <<directory, music_files, mapping, i, result, merr, files,
                   out_files, wav_file, calls>>
    /\ PipeFrame

\* lines 203-204: the matcher returned; track_num = 1
PipeBeginTag ==
    /\ ppc = "match"
    /\ mpc = "returned"
    /\ ppc' = "tag"
    /\ tag_track_num' = 1
    /\ UNCHANGED <<album_exists, config_json, output_directory, out_files,
                   json_content, album_metadata, kwargs, files, wav_file,
                   calls, at_call, perr, matchVars, seqVars>>

\* a pipeline that goes on to the next pair when mid3v2 fails
TagFails_Continue(file) ==
    /\ tag_track_num' = tag_track_num + 1
    /\ UNCHANGED <<ppc, perr>>

\* subprocess.run(mid3v2_command, check=True) raises
TagFails(file) ==
    /\ PipeRaise(Simple("CalledProcessError", {file}))
    /\ UNCHANGED tag_track_num

\* lines 205-208, 117-135: add_metadata on the next pair of the mapping
PipeTag ==
    /\ ppc = "tag"
    /\ tag_track_num <= Len(result)
    /\ LET title == result[tag_track_num][1]
           mp3_file == result[tag_track_num][2]
       IN  IF mp3_file \notin directory
           THEN /\ PipeRaise(Simple("FileNotFoundError", {mp3_file}))
                /\ UNCHANGED <<tag_track_num, calls>>
           ELSE \E ok \in BOOLEAN :
                   /\ calls' = Append(calls, Call("mid3v2", mp3_file, ok, title,
                                                  tag_track_num, kwargs))
                   /\ IF ok
                      THEN /\ tag_track_num' = tag_track_num + 1
                           /\ UNCHANGED <<ppc, perr>>
                      ELSE TagFails(mp3_file)
    /\ UNCHANGED <<album_exists, config_json, output_directory, out_files,
                   json_content, album_metadata, kwargs, files, wav_file,
                   at_call, matchVars, seqVars>>

\* the loop over the mapping is exhausted: populate_album_metadata returns
PipeDone ==
    /\ ppc = "tag"
    /\ tag_track_num > Len(result)
    /\ ppc' = "done"
    /\ UNCHANGED <<album_exists, config_json, output_directory, out_files,
                   json_content, album_metadata, kwargs, files, wav_file,
                   tag_track_num, calls, at_call, perr, matchVars, seqVars>>

(***************************************************************************)
(* The pipeline: every album directory, configuration and choice of        *)
(* arguments within the bounds.                                            *)
(***************************************************************************)
CfgC == <<"c">> \o JSON
CfgD == <<"d">> \o JSON

AlbumNames ==
    {stem \o suffix : stem \in {<<"1">>, <<"2">>}, suffix \in {WAV, MP3}}
        \cup {CfgC, CfgD}

SomeTags == [artist |-> "Artist", date |-> "2000"]

ConfigUniverse ==
    {NoConfig, Config(TRUE, FALSE, <<>>, SomeTags)}
        \cup {Config(TRUE, TRUE, songs, SomeTags) :
                 songs \in SeqsUpTo(Titles, MaxTitles)}

InitAlbum ==
    /\ ppc = "start"
    /\ album_exists \in BOOLEAN
    /\ directory \in (IF album_exists THEN SUBSET AlbumNames ELSE {{}})
    /\ config_json \in {NoPath, CfgC, CfgD}
    /\ output_directory \in {None, "out", "gone"}
    /\ out_files = {}
    /\ \E content \in ConfigUniverse :
          json_content = (CfgC :> content) @@
                         (CfgD :> Config(TRUE, TRUE, <<<<"b">>>>, [album |-> "Album"]))
    /\ album_metadata = NoConfig
    /\ kwargs = NoTags
    /\ files = {}
    /\ wav_file = NoPath
    /\ tag_track_num = 0
    /\ calls = <<>>
    /\ at_call = [directory |-> directory, config_json |-> config_json]
    /\ perr = NoError
    /\ MatchIdle
    /\ SeqIdle

NextAlbum ==
    \/ PipeCheckArgs
    \/ PipeLoad
    \/ PipeTranscode
    \/ PipePrompt
    \/ PipeMatch
    \/ MatchEntry
    \/ MatchIter
    \/ MatchReturn
    \/ PipeBeginTag
    \/ PipeTag
    \/ PipeDone

SpecAlbum == InitAlbum /\ [][NextAlbum]_vars

(***************************************************************************)
(* Claims about the matcher.                                               *)
(***************************************************************************)
\* the candidate audio files of a directory
AudioFiles(dir) == {f \in dir : Suffix(f) = WAV \/ Suffix(f) = MP3}

\* file f names track k: it holds the decimal number k or the title text
NamesTrack(f, k, title) ==
    \/ Contains(Str(k), Stem(f))
    \/ Contains(title, Stem(f))

\* The cardinalities are equal and there is an assignment of one file to
\* each track such that the file names its track and no file of an earlier
\* track (still unclaimed when the track is processed, last to first) does.
UniquelyNamedIn(titles, cands) ==
    /\ Len(titles) = Cardinality(cands)
    /\ \E intended \in [1..Len(titles) -> cands] :
          /\ \A a, b \in 1..Len(titles) : a # b => intended[a] # intended[b]
          /\ \A k \in 1..Len(titles) :
                /\ NamesTrack(intended[k], k, titles[k])
                /\ \A j \in 1..(k - 1) :
                      ~NamesTrack(intended[j], k, titles[k])

UniquelyNamed == UniquelyNamedIn(title_list, AudioFiles(directory))

MatchEnded == mpc \in {"returned", "raised"}

C5_CountMismatch ==
    (mpc # "call") =>
        /\ (Len(title_list) # Cardinality(AudioFiles(directory))) =>
              /\ mpc = "raised"
              /\ merr.kind = "ValueError"
              /\ merr.found = Cardinality(AudioFiles(directory))
              /\ merr.given = Len(title_list)
              /\ i = 0
              /\ mapping = <<>>
              /\ result = <<>>
              /\ music_files = AudioFiles(directory)
        /\ (merr.kind = "ValueError") =>
              Len(title_list) # Cardinality(AudioFiles(directory))

C5_Witness ==
    /\ mpc = "raised"
    /\ merr.kind = "ValueError"
    /\ Len(title_list) = 1
    /\ Cardinality(AudioFiles(directory)) = 2
    /\ mapping = <<>>

\* the candidates that name the track being processed when the loop stopped
Conflicting ==
    {f \in music_files :
        NamesTrack(f, Len(title_list) - i, title_list[Len(title_list) - i])}

\* C6: a file is claimed only when exactly one remaining candidate names the
\* track; with two or more the matcher fails with the ambiguous-match error
\* naming the conflicting candidates, with none it fails with the no-match
\* error naming the track number and the title; neither failure claims a
\* file or returns a mapping.
C6_AmbiguousOrNone ==
    /\ (mpc = "raised" /\ merr.kind # "ValueError") =>
          /\ Cardinality(Conflicting) # 1
          /\ result = <<>>
          /\ Len(mapping) = i
          /\ Cardinality(music_files) = Len(title_list) - i
          /\ Cardinality(Conflicting) >= 2 =>
                /\ merr.kind = "RuntimeError"
                /\ merr.names = Conflicting
          /\ Cardinality(Conflicting) = 0 =>
                /\ merr.kind = "RuntimeError"
                /\ merr.track = Len(title_list) - i
                /\ merr.title = title_list[Len(title_list) - i]
    /\ \A k \in 1..Len(mapping) :
          mapping[k][2] \notin music_files

(***************************************************************************)
(* Claims about the multi-disc sequencer.                                  *)
(***************************************************************************)
\* number of files relocated (moved, or recorded by a mock run) for the
\* discs before disc d
RECURSIVE RelocatedBefore(_, _)
RelocatedBefore(ms, d) ==
    IF d <= 1 THEN 0
    ELSE RelocatedBefore(ms, d - 1) + Cardinality(ms[d - 1])

\* C2: in a live run and in a dry run alike, a file relocated for disc d
\* gets the track number (index parsed from its name) + (number of files
\* relocated for discs 1..d-1).
C2_OffsetIsRelocatedCount ==
    \A m \in BOOLEAN : \A d \in 1..Len(moves[m]) : \A p \in moves[m][d] :
        p.dst = TargetName(Prefix(d),
                           TrackIndex(p.src) + RelocatedBefore(moves[m], d))

\* C3: for the same disc count and the same ripper outputs, the dry run
\* records for every disc the (source, destination) pairs the live run moves.
C3_DryRunSameAsLive ==
    \A d \in 1..Len(moves[FALSE]) : moves[TRUE][d] = moves[FALSE][d]

\* k in 0..99 written with exactly two digits
Pad2(k) == <<DigitChar(k \div 10), DigitChar(k % 10)>>

\* C7: for a disc index and a resulting track number in 1..99, the file is
\* relocated to cd<disc, two digits>track<track number, two digits>.wav.
C7_TwoDigitNames ==
    [][spc = "relocating" =>
          \A m \in BOOLEAN : \A p \in moves'[m][n] :
              LET t == TrackIndex(p.src) + track_num[m]
              IN  (n \in 1..99 /\ t \in 1..99) =>
                      p.dst = <<"c", "d">> \o Pad2(n) \o TRACK \o Pad2(t) \o WAV]_vars

StepNames == <<"prompt", "rip", "relocate">>

PipeEnded == ppc \in {"done", "failed"}

\* the calls of one external tool, in order
CallsOf(tool) == SelectSeq(calls, LAMBDA c : c.tool = tool)

SourceWavs == {f \in at_call.directory : Suffix(f) = WAV}

\* the directory held exactly its source .wav files as audio, no output
\* directory was given, the loaded songs list has one title per source and the
\* transcoded files name their tracks uniquely, and no external tool failed
C4_Given ==
    /\ album_exists
    /\ output_directory = None
    /\ AudioFiles(at_call.directory) = SourceWavs
    /\ album_metadata.parsable
    /\ album_metadata.has_songs
    /\ UniquelyNamedIn(album_metadata.songs, {Mp3Of(w) : w \in SourceWavs})
    /\ \A k \in 1..Len(calls) : calls[k].ok

\* C4: with N source .wav files, N titles the file names match unambiguously,
\* no output directory and no failing tool, the pipeline transcodes, matches
\* and tags, and ends with the tagger invoked exactly N times, each time on
\* a transcoded <stem>.mp3 of the album directory.
C4_TagsEveryTranscodedFile ==
    (PipeEnded /\ C4_Given) =>
        /\ ppc = "done"
        /\ Len(CallsOf("ffmpeg")) = Cardinality(SourceWavs)
        /\ Len(CallsOf("mid3v2")) = Cardinality(SourceWavs)
        /\ \A k \in 1..Len(CallsOf("mid3v2")) :
              CallsOf("mid3v2")[k].file \in {Mp3Of(w) : w \in SourceWavs}

ToolRank(tool) == CASE tool = "json.load" -> 1
                    [] tool = "ffmpeg" -> 2
                    [] tool = "mid3v2" -> 3

\* C9: a failing step ends the pipeline.  The transcoder runs only after the
\* configuration was loaded, the matcher only after every transcode
\* succeeded, the tagger only after the matcher returned a full mapping; the
\* tagger is invoked on the pairs in mapping order with track numbers
\* 1, 2, .., and its failure on pair k leaves the later pairs untagged.
C9_FailureAborts ==
    /\ \A k \in 1..Len(calls) :
          /\ ~calls[k].ok => (k = Len(calls) /\ ppc = "failed")
          /\ \A j \in 1..(k - 1) : ToolRank(calls[j].tool) <= ToolRank(calls[k].tool)
    /\ (Len(calls) > 0) =>
          (calls[1].tool = "json.load" /\ calls[1].file = config_json)
    /\ (Len(CallsOf("ffmpeg")) > 0) => (calls[1].ok /\ album_metadata.parsable)
    /\ (mpc # "idle") =>
          /\ calls[1].ok
          /\ \A k \in 1..Len(CallsOf("ffmpeg")) : CallsOf("ffmpeg")[k].ok
          /\ \A f \in files : Suffix(f) # WAV
    /\ (Len(CallsOf("mid3v2")) > 0 \/ ppc \in {"tag", "done"}) =>
          /\ mpc = "returned"
          /\ Len(result) = Len(album_metadata.songs)
    /\ Len(CallsOf("mid3v2")) <= Len(result)
    /\ \A k \in 1..Len(CallsOf("mid3v2")) :
          CallsOf("mid3v2")[k] =
              Call("mid3v2", result[k][2], CallsOf("mid3v2")[k].ok,
                   result[k][1], k, kwargs)
    /\ (ppc = "done") =>
          /\ Len(CallsOf("mid3v2")) = Len(result)
          /\ \A k \in 1..Len(calls) : calls[k].ok
    /\ (ppc = "failed") => (perr.kind # None)

C9_Witness ==
    /\ ppc = "failed"
    /\ Len(result) = 2
    /\ Len(CallsOf("mid3v2")) = 1
    /\ ~CallsOf("mid3v2")[1].ok

NothingDone ==
    /\ ppc = "failed"
    /\ perr.kind = "FileNotFoundError"
    /\ calls = <<>>
    /\ album_metadata = NoConfig

JsonAtCall == {f \in at_call.directory : Suffix(f) = JSON}

\* the first thing the pipeline does after the arguments are checked is to
\* load file
Uses(file) ==
    /\ config_json = file
    /\ (ppc # "load") => (Len(calls) > 0 /\ calls[1] =
            Call("json.load", file, ContentOf(file).parsable, <<>>, 0, NoTags))

\* C10 as stated: without an explicit path the pipeline uses the sole .json
\* file of the directory and fails, with nothing loaded, transcoded or
\* tagged, when there is none or more than one; an explicit path that is not
\* an existing file fails with missing-path.
C10_SoleJsonOrFail ==
    (ppc # "start" /\ album_exists) =>
        IF at_call.config_json = NoPath
        THEN IF Cardinality(JsonAtCall) = 1
             THEN \A f \in JsonAtCall : Uses(f)
             ELSE NothingDone
        ELSE (at_call.config_json \notin at_call.directory) => NothingDone

\* C10 amended: without an explicit path the pipeline fails, with nothing
\* loaded, transcoded or tagged, only when the directory holds no .json
\* file; otherwise it goes on with one of the directory's .json files, the
\* sole one when there is exactly one.  An explicit path that is not an
\* existing file fails with missing-path, and an existing one is used.
C10_SomeJsonOrFail ==
    (ppc # "start" /\ album_exists) =>
        IF at_call.config_json = NoPath
        THEN IF JsonAtCall = {}
             THEN NothingDone
             ELSE \E f \in JsonAtCall : Uses(f)
        ELSE IF at_call.config_json \notin at_call.directory
             THEN NothingDone
             ELSE Uses(at_call.config_json)

C10_Witness ==
    /\ at_call.config_json = NoPath
    /\ Cardinality(JsonAtCall) = 2
    /\ ppc = "done"
    /\ Len(CallsOf("mid3v2")) = 1

====
